---- MODULE Spec2Model ----
(***************************************************************************)
(* Model of typed-configs' ConfigManager (src/src/ConfigManager.ts): the   *)
(* process-wide registry `Configs`, its operations add / get /             *)
(* takeSnapshot / restoreSnapshot, and the callers' view of it (the        *)
(* process environment, the instance references handed out).              *)
(*                                                                         *)
(* configMetadata, configHelpers and types are not part of the sources at  *)
(* hand; the definitions that stand for them follow spec.md sections 3,    *)
(* 4.1 and 6 and are marked so in MODEL_MAP.json.                          *)
(***************************************************************************)
EXTENDS Integers, Sequences, FiniteSets, TLC

\* ------------------------------------------------------------------ bounds
\* Longest snapshot literal a caller hands to restoreSnapshot.
MaxSnapshotLen == 2
\* Most callbacks waiting in the timer queue at once.
MaxTimers == 2

\* ------------------------------------------------------------------ values
\* A JavaScript value of one of the supported config types, or undefined.
Undefined == [tag |-> "undefined", str |-> "", num |-> 0, bool |-> FALSE]
Str(s) == [tag |-> "string", str |-> s, num |-> 0, bool |-> FALSE]
Num(n) == [tag |-> "number", str |-> "", num |-> n, bool |-> FALSE]
NaN == [tag |-> "number", str |-> "NaN", num |-> 0, bool |-> FALSE]
Bool(b) == [tag |-> "boolean", str |-> "", num |-> 0, bool |-> b]

\* obj[k] = v on a plain object: creates the property when it is absent.
Put(obj, k, v) == [x \in (DOMAIN obj) \cup {k} |-> IF x = k THEN v ELSE obj[x]]

\* obj[k] read on a plain object: undefined when the property is absent.
ReadMember(obj, k) == IF k \in DOMAIN obj THEN obj[k] ELSE Undefined

\* ------------------------------------------------------- field metadata store
Classes == {"ExampleClass", "Communicator", "EmptyClass", "BadClass"}

\* Two classes that declare a field of the same property name under the same
\* config name: ExampleClass and a second class with a default of its own.
IsolationClasses == {"ExampleClass", "EchoClass"}

AllClasses == Classes \cup IsolationClasses

SupportedTypes == {"string", "number", "boolean"}

FieldDef(property, name, description, required, recommendedValue, type) ==
    [property |-> property, name |-> name, description |-> description,
     required |-> required, recommendedValue |-> recommendedValue, type |-> type]

\* The declared fields of a class, in declaration order.
Fields(clazz) ==
    CASE clazz = "ExampleClass" ->
           << FieldDef("propertyDefaultHelloWorld", "HELLO_WORLD", "X", FALSE, Undefined, "string") >>
      [] clazz = "Communicator" ->
           << FieldDef("greeting", "GREETING", "They way you say hi to others", TRUE, Str("Hello"), "string"),
              FieldDef("goodbye", "GOODBYE_MESSAGE", "The way you say goodbye. Optional.", FALSE, Undefined, "string"),
              FieldDef("idleMessage", "IDLE_SOUND", "What do you say when doing nothing?", FALSE, Undefined, "string") >>
      [] clazz = "EchoClass" ->
           << FieldDef("propertyDefaultHelloWorld", "HELLO_WORLD", "Y", FALSE, Undefined, "string") >>
      [] clazz = "BadClass" ->
           << FieldDef("handler", "HANDLER", "A field of an unsupported type", TRUE, Undefined, "object") >>
      [] OTHER -> << >>

FieldProperties(clazz) == {Fields(clazz)[i].property : i \in DOMAIN Fields(clazz)}
FieldNames(clazz) == {Fields(clazz)[i].name : i \in DOMAIN Fields(clazz)}

\* getConfigValueOptionsMap(clazz.prototype): throws when the class has no fields.
OptionsMapError(clazz) == IF Fields(clazz) = << >> THEN "NoFieldsError" ELSE "none"

\* getConfigValueNames(clazz.prototype): config name -> field options.
GetConfigValueNames(clazz) ==
    [n \in FieldNames(clazz) |->
        Fields(clazz)[CHOOSE i \in DOMAIN Fields(clazz) : Fields(clazz)[i].name = n]]

\* validateConfigFieldOptions(clazz)
ValidateConfigFieldOptions(clazz) ==
    IF OptionsMapError(clazz) # "none" THEN OptionsMapError(clazz)
    ELSE IF \E i \in DOMAIN Fields(clazz) : Fields(clazz)[i].type \notin SupportedTypes
         THEN "ValidationError"
         ELSE "none"

\* new clazz(): the in-class defaults; a field without initialiser reads undefined.
NewInstance(clazz) ==
    CASE clazz = "ExampleClass" ->
           [p \in {"propertyDefaultHelloWorld"} |-> Str("Hi")]
      [] clazz = "Communicator" ->
           [p \in {"greeting", "goodbye", "idleMessage", "nonConfigProperty"} |->
               CASE p = "goodbye" -> Str("/me left the chat")
                 [] p = "nonConfigProperty" -> Str("I don't need a type because I don't matter.")
                 [] OTHER -> Undefined]
      [] clazz = "EchoClass" ->
           [p \in {"propertyDefaultHelloWorld"} |-> Str("Echo")]
      [] clazz = "BadClass" -> [p \in {"handler"} |-> Undefined]
      [] OTHER -> [p \in {} |-> Undefined]

\* A value counts as missing when it is undefined or the empty string.
IsEmptyValue(v) == v = Undefined \/ v = Str("")

\* validateRequiredConfigValues(configInstance, clazz): the config name of the
\* first required field without a value, "" when there is none.
MissingRequiredField(inst, clazz) ==
    LET missing == {i \in DOMAIN Fields(clazz) :
                        Fields(clazz)[i].required /\ IsEmptyValue(ReadMember(inst, Fields(clazz)[i].property))}
    IN IF missing = {} THEN ""
       ELSE Fields(clazz)[CHOOSE i \in missing : \A j \in missing : i <= j].name

\* ------------------------------------------------------------ source loaders
EnvNames == {"HELLO_WORLD", "GREETING"}
\* The string a caller sets a variable to: a greeting for HELLO_WORLD, the
\* empty string for GREETING.
EnvString(key) == IF key = "HELLO_WORLD" THEN "HeyWorld" ELSE ""

\* Number(s) for the strings the model uses.
ParseNumber(s) ==
    CASE s = "" -> Num(0)
      [] s = "8080" -> Num(8080)
      [] OTHER -> NaN

\* loadEnvironmentVariable(key, type): the variable's string coerced to the field type.
LoadEnvironmentVariable(e, key, type) ==
    CASE type = "number" -> ParseNumber(e[key])
      [] type = "boolean" -> Bool(e[key] = "true")
      [] OTHER -> Str(e[key])

\* getEnvironmentVariableKeys()
GetEnvironmentVariableKeys(e) == DOMAIN e

YamlPaths == {"local.yml"}
OptionPaths == {"", "doesntexist"} \cup YamlPaths

\* The file on disk: local.yml as the tests write it, with the Communicator's
\* required GREETING and a key no class declares besides.
YamlFile(path) ==
    CASE path = "local.yml" ->
           [k \in {"HELLO_WORLD", "GREETING", "LOG_LEVEL"} |->
               CASE k = "HELLO_WORLD" -> Str("Yo World!")
                 [] k = "GREETING" -> Str("Hello")
                 [] OTHER -> Str("debug")]
      [] OTHER -> [k \in {} |-> Undefined]

\* loadConfigfromYaml(path): throws when the file does not exist.
LoadYamlError(path) == IF path \in YamlPaths THEN "none" ELSE "MissingYamlFile"

\* ConfigOptions: configYmlPath is optional.
NoOptions == [given |-> FALSE, configYmlPath |-> ""]
Options == {NoOptions} \cup {[given |-> TRUE, configYmlPath |-> p] : p \in OptionPaths}

\* ------------------------------------------------------------------- state
VARIABLES
    configs,      \* ConfigManager.configs: the Map, as its entries in insertion order
    heap,         \* the instances the registry refers to: object id -> properties
    env,          \* process.env, restricted to EnvNames
    ret,          \* outcome of the last call: what it returned or threw
    held,         \* the snapshot the caller kept from its last takeSnapshot
    created,      \* history: the object add(clazz) created first and applied the sources to
    returned,     \* history: the object the successful add(clazz) returned
    timers,       \* the event loop's timer queue: callbacks set with setTimeout, oldest first
    definitions   \* what the last settled getConfigsDefintions promise resolved to

vars == <<configs, heap, env, ret, held, created, returned, timers, definitions>>

\* ------------------------------------------------------------- the Map type
\* Map.has(clazz)
Has(cfgs, clazz) == \E i \in DOMAIN cfgs : cfgs[i].clazz = clazz

\* Map.get(clazz): undefined (no object, 0) for a key the map does not have.
MapGet(cfgs, clazz) ==
    IF Has(cfgs, clazz) THEN cfgs[CHOOSE i \in DOMAIN cfgs : cfgs[i].clazz = clazz].obj ELSE 0

\* Mutant of MapSet: the value is stored under every key of the map.
MapSetEveryKey(cfgs, clazz, obj) ==
    IF Has(cfgs, clazz)
    THEN [i \in DOMAIN cfgs |-> [clazz |-> cfgs[i].clazz, obj |-> obj]]
    ELSE Append([i \in DOMAIN cfgs |-> [clazz |-> cfgs[i].clazz, obj |-> obj]],
                [clazz |-> clazz, obj |-> obj])

\* Map.set(clazz, obj): an existing key keeps its position, a new key goes last.
MapSet(cfgs, clazz, obj) ==
    IF Has(cfgs, clazz)
    THEN [i \in DOMAIN cfgs |-> IF cfgs[i].clazz = clazz THEN [clazz |-> clazz, obj |-> obj] ELSE cfgs[i]]
    ELSE Append(cfgs, [clazz |-> clazz, obj |-> obj])

RegisteredClasses(cfgs) == {cfgs[i].clazz : i \in DOMAIN cfgs}
RegisteredObjects(cfgs) == {cfgs[i].obj : i \in DOMAIN cfgs}

\* The heap keeps the objects the registry reaches.
Reachable(h, cfgs) == [o \in (DOMAIN h) \cap RegisteredObjects(cfgs) |-> h[o]]

\* --------------------------------------------------------------- call results
EmptySnapshot == << >>

\* err is "none" for a call that returned; detail is what the error message names.
Result(op, clazz, err, detail, obj, snap) ==
    [op |-> op, clazz |-> clazz, err |-> err, detail |-> detail, obj |-> obj, snap |-> snap]

Returns(op, clazz, obj, snap) == Result(op, clazz, "none", "", obj, snap)
Throws(op, clazz, err, detail) == Result(op, clazz, err, detail, 0, EmptySnapshot)

\* No getConfigsDefintions promise has settled yet. atCall is history: the
\* registry's keys when the call was made.
NoDefinitions == [settled |-> FALSE, err |-> "none", value |-> << >>, atCall |-> << >>]

\* held.taken and held.live are history: the declared fields' values on the live
\* instance when the snapshot was taken, and whether there was a live instance.
NoSnapshot == [valid |-> FALSE, clazz |-> "", snap |-> EmptySnapshot, live |-> FALSE,
               taken |-> [p \in {} |-> Undefined]]

Init ==
    /\ configs = << >>
    /\ heap = [o \in {} |-> [p \in {} |-> Undefined]]
    /\ env = [k \in {} |-> ""]
    /\ ret = Returns("init", "", 0, EmptySnapshot)
    /\ held = NoSnapshot
    /\ created = [c \in AllClasses |-> 0]
    /\ returned = [c \in AllClasses |-> 0]
    /\ timers = << >>
    /\ definitions = NoDefinitions

\* ------------------------------------------------------------------ add
\* add leaves the timer queue and settled promises alone; the step that runs it
\* (a call in the running task, or a timer callback) says what becomes of them.
\* Step 2: the known yaml keys assigned to their properties.
ApplyYaml(inst, clazz, yamlValues) ==
    LET configNamePropertyMapping == GetConfigValueNames(clazz)
        knownYamlKeys == {k \in DOMAIN yamlValues : k \in DOMAIN configNamePropertyMapping}
        written == {configNamePropertyMapping[k].property : k \in knownYamlKeys}
    IN [p \in (DOMAIN inst) \cup written |->
           IF p \in written
           THEN yamlValues[CHOOSE k \in knownYamlKeys : configNamePropertyMapping[k].property = p]
           ELSE inst[p]]

\* Mutant of ApplyEnv: the environment step assigns nothing.
ApplyEnvSkipped(inst, clazz, e) == inst

\* Mutant of ApplyEnv: every declared field is assigned, undefined when the
\* environment has no variable of its name.
ApplyEnvEveryField(inst, clazz, e) ==
    [p \in (DOMAIN inst) \cup FieldProperties(clazz) |->
        IF p \in FieldProperties(clazz)
        THEN LET f == Fields(clazz)[CHOOSE i \in DOMAIN Fields(clazz) : Fields(clazz)[i].property = p]
             IN IF f.name \in DOMAIN e THEN LoadEnvironmentVariable(e, f.name, f.type) ELSE Undefined
        ELSE inst[p]]

\* Step 3: the known environment keys, coerced, assigned to their properties.
ApplyEnv(inst, clazz, e) ==
    LET configNamePropertyMapping == GetConfigValueNames(clazz)
        knownEnvKeys == {k \in GetEnvironmentVariableKeys(e) : k \in DOMAIN configNamePropertyMapping}
        written == {configNamePropertyMapping[k].property : k \in knownEnvKeys}
    IN [p \in (DOMAIN inst) \cup written |->
           IF p \in written
           THEN LET key == CHOOSE k \in knownEnvKeys : configNamePropertyMapping[k].property = p
                IN LoadEnvironmentVariable(e, key, configNamePropertyMapping[key].type)
           ELSE inst[p]]

\* `if (options.configYmlPath)`: an omitted or empty path is falsy.
YamlRequested(options) == options.given /\ options.configYmlPath # ""

\* Mutants of AddPrecheck: the has-check left out; the validation left out.
AddPrecheckNoHas(cfgs, clazz) == ValidateConfigFieldOptions(clazz)
AddPrecheckNoValidate(cfgs, clazz) ==
    IF Has(cfgs, clazz) THEN "AlreadyRegisteredError" ELSE "none"

\* The checks before the class is instantiated.
AddPrecheck(cfgs, clazz) ==
    IF Has(cfgs, clazz) THEN "AlreadyRegisteredError" ELSE ValidateConfigFieldOptions(clazz)

\* Mutant of StoreNewInstance: the new instance kept in a local only.
StoreNewInstanceLocal(cfgs, clazz, obj) == cfgs

\* Step 1: `this.configs.set(clazz, new clazz())`, before any source is read.
StoreNewInstance(cfgs, clazz, obj) == MapSet(cfgs, clazz, obj)

\* `new` yields an object distinct from every object still referred to.
UsedIds == (RegisteredObjects(configs) \cup {created[c] : c \in AllClasses}
                \cup {returned[c] : c \in AllClasses}) \ {0}
FreshId(used) == CHOOSE i \in 1..(Cardinality(used) + 1) : i \notin used /\ \A j \in 1..(i - 1) : j \in used

Add(clazz, options) ==
    /\ UNCHANGED <<env, held>>
    /\ IF AddPrecheck(configs, clazz) # "none"
       THEN /\ ret' = Throws("add", clazz, AddPrecheck(configs, clazz), clazz)
            /\ UNCHANGED <<configs, heap, created, returned>>
       ELSE LET configInstance == FreshId(UsedIds)
                stored == StoreNewInstance(configs, clazz, configInstance)
            IN /\ created' = [created EXCEPT ![clazz] = configInstance]
               /\ IF YamlRequested(options) /\ LoadYamlError(options.configYmlPath) # "none"
                  THEN /\ configs' = stored
                       /\ heap' = Reachable(Put(heap, configInstance, NewInstance(clazz)), stored)
                       /\ ret' = Throws("add", clazz, LoadYamlError(options.configYmlPath),
                                        options.configYmlPath)
                       /\ UNCHANGED returned
                  ELSE LET afterYaml == IF YamlRequested(options)
                                        THEN ApplyYaml(NewInstance(clazz), clazz, YamlFile(options.configYmlPath))
                                        ELSE NewInstance(clazz)
                           afterEnv == ApplyEnv(afterYaml, clazz, env)
                           missing == MissingRequiredField(afterEnv, clazz)
                       IN IF missing # ""
                          THEN /\ configs' = stored
                               /\ heap' = Reachable(Put(heap, configInstance, afterEnv), stored)
                               /\ ret' = Throws("add", clazz, "MissingRequiredFieldError", missing)
                               /\ UNCHANGED returned
                          ELSE LET replacement == FreshId(UsedIds \cup {configInstance})
                                   final == MapSet(stored, clazz, replacement)
                               IN /\ configs' = final
                                  /\ heap' = Reachable(Put(Put(heap, configInstance, afterEnv),
                                                           replacement, NewInstance(clazz)), final)
                                  /\ ret' = Returns("add", clazz, MapGet(final, clazz), EmptySnapshot)
                                  /\ returned' = [returned EXCEPT ![clazz] = MapGet(final, clazz)]

\* ------------------------------------------------------------------ get
GetError(cfgs, clazz) == IF ~Has(cfgs, clazz) THEN "NotRegisteredError" ELSE "none"

Get(clazz) ==
    /\ ret' = IF GetError(configs, clazz) # "none"
              THEN Throws("get", clazz, GetError(configs, clazz), clazz)
              ELSE Returns("get", clazz, MapGet(configs, clazz), EmptySnapshot)
    /\ UNCHANGED <<configs, heap, env, held, created, returned, timers, definitions>>

\* A caller writes a declared field through the reference get hands out.
CallerValues == {Str("value")}
CallerProperties == {"propertyDefaultHelloWorld", "greeting"}

SetField(clazz, property, value) ==
    /\ Has(configs, clazz)
    /\ property \in FieldProperties(clazz) \cap CallerProperties
    /\ heap' = [heap EXCEPT ![MapGet(configs, clazz)] = Put(@, property, value)]
    /\ ret' = Returns("write", clazz, MapGet(configs, clazz), EmptySnapshot)
    /\ UNCHANGED <<configs, env, held, created, returned, timers, definitions>>

\* ------------------------------------------------------------- environment
SetEnv(key) ==
    /\ key \notin DOMAIN env
    /\ env' = Put(env, key, EnvString(key))
    /\ ret' = Returns("setenv", "", 0, EmptySnapshot)
    /\ UNCHANGED <<configs, heap, held, created, returned, timers, definitions>>

RemoveEnv(key) ==
    /\ key \in DOMAIN env
    /\ env' = [k \in (DOMAIN env) \ {key} |-> env[k]]
    /\ ret' = Returns("delenv", "", 0, EmptySnapshot)
    /\ UNCHANGED <<configs, heap, held, created, returned, timers, definitions>>

\* ------------------------------------------------------------ takeSnapshot
\* One entry per declared field, in declaration order, each holding what the
\* `value` member of the field's options reads as.
SnapshotOf(clazz) ==
    [i \in DOMAIN Fields(clazz) |->
        [key |-> Fields(clazz)[i].property, value |-> ReadMember(Fields(clazz)[i], "value")]]

\* The live instance of a class as the caller sees it at this moment.
LiveInstance(cfgs, h, clazz) ==
    IF Has(cfgs, clazz) THEN h[MapGet(cfgs, clazz)] ELSE [p \in {} |-> Undefined]

\* Mutant of TakeSnapshot: the field options are iterated without the lookup
\* that throws for a class without fields.
TakeSnapshotUnchecked(configClass, keep) ==
    /\ ret' = Returns("takeSnapshot", configClass, 0, SnapshotOf(configClass))
    /\ held' = IF keep
               THEN [valid |-> TRUE, clazz |-> configClass, snap |-> SnapshotOf(configClass),
                     live |-> Has(configs, configClass),
                     taken |-> [p \in FieldProperties(configClass) |->
                                  ReadMember(LiveInstance(configs, heap, configClass), p)]]
               ELSE held
    /\ UNCHANGED <<configs, heap, env, created, returned, timers, definitions>>

\* keep: whether the caller retains the returned snapshot for a later restore.
TakeSnapshot(configClass, keep) ==
    /\ IF OptionsMapError(configClass) # "none"
       THEN /\ ret' = Throws("takeSnapshot", configClass, OptionsMapError(configClass), configClass)
            /\ UNCHANGED held
       ELSE /\ ret' = Returns("takeSnapshot", configClass, 0, SnapshotOf(configClass))
            /\ held' = IF keep
                       THEN [valid |-> TRUE, clazz |-> configClass, snap |-> SnapshotOf(configClass),
                             live |-> Has(configs, configClass),
                             taken |-> [p \in FieldProperties(configClass) |->
                                          ReadMember(LiveInstance(configs, heap, configClass), p)]]
                       ELSE held
    /\ UNCHANGED <<configs, heap, env, created, returned, timers, definitions>>

\* --------------------------------------------------------- restoreSnapshot
RECURSIVE AssignAll(_, _)
\* The loop body for every key of the snapshot, in the snapshot's key order.
AssignAll(inst, snapshot) ==
    IF snapshot = << >> THEN inst
    ELSE AssignAll(Put(inst, Head(snapshot).key, Head(snapshot).value), Tail(snapshot))

\* The error of the call: get is only reached inside the loop.
RestoreError(cfgs, clazz, snapshot) ==
    IF snapshot = << >> THEN "none" ELSE GetError(cfgs, clazz)

\* Mutant of RestoreSnapshot: the values are merged into a copy of the instance
\* and the copy is put in the Map in its place.
RestoreSnapshotIntoCopy(configClass, snapshot) ==
    /\ IF RestoreError(configs, configClass, snapshot) # "none"
       THEN /\ ret' = Throws("restoreSnapshot", configClass,
                             RestoreError(configs, configClass, snapshot), configClass)
            /\ UNCHANGED <<configs, heap>>
       ELSE /\ ret' = Returns("restoreSnapshot", configClass, 0, EmptySnapshot)
            /\ IF snapshot = << >> THEN UNCHANGED <<configs, heap>>
               ELSE LET copy == FreshId(UsedIds)
                        final == MapSet(configs, configClass, copy)
                    IN /\ configs' = final
                       /\ heap' = Reachable(Put(heap, copy,
                                        AssignAll(heap[MapGet(configs, configClass)], snapshot)), final)
    /\ UNCHANGED <<env, held, created, returned, timers, definitions>>

RestoreSnapshot(configClass, snapshot) ==
    /\ IF RestoreError(configs, configClass, snapshot) # "none"
       THEN /\ ret' = Throws("restoreSnapshot", configClass,
                             RestoreError(configs, configClass, snapshot), configClass)
            /\ UNCHANGED heap
       ELSE /\ ret' = Returns("restoreSnapshot", configClass, 0, EmptySnapshot)
            /\ heap' = IF snapshot = << >> THEN heap
                       ELSE [heap EXCEPT ![MapGet(configs, configClass)] = AssignAll(@, snapshot)]
    /\ UNCHANGED <<configs, env, held, created, returned, timers, definitions>>

\* What callers pass to restoreSnapshot: the snapshot they hold, or a literal.
SnapshotKeys == {"greeting", "unknownProperty"}
SnapshotEntries == {[key |-> k, value |-> Str("value")] : k \in SnapshotKeys}
SnapshotLiterals ==
    {s \in UNION {[1..n -> SnapshotEntries] : n \in 0..MaxSnapshotLen} :
        \A i, j \in DOMAIN s : i # j => s[i].key # s[j].key}

RestoreHeld == held.valid /\ RestoreSnapshot(held.clazz, held.snap)

\* -------------------------------------------------------- removeAllConfigs
RemoveAllConfigs ==
    /\ configs' = << >>
    /\ heap' = [o \in {} |-> [p \in {} |-> Undefined]]
    /\ ret' = Returns("removeAllConfigs", "", 0, EmptySnapshot)
    /\ created' = [c \in AllClasses |-> 0]
    /\ returned' = [c \in AllClasses |-> 0]
    /\ UNCHANGED <<env, held, timers, definitions>>

\* ---------------------------------------------------- getConfigsDefintions
\* `{ ...configValueOptions }`: a copy of one field's options.
DefinitionOf(f) ==
    [name |-> f.name, description |-> f.description, required |-> f.required,
     recommendedValue |-> f.recommendedValue, type |-> f.type]

\* The inner forEach: the options of a class's fields in declaration order.
ClassDefinitions(clazz) == [i \in DOMAIN Fields(clazz) |-> DefinitionOf(Fields(clazz)[i])]

\* The keys of the Map in insertion order, which is all the loop looks at.
MapKeys(cfgs) == [i \in DOMAIN cfgs |-> cfgs[i].clazz]

RECURSIVE DefinitionsReversed(_)
\* Mutant of Definitions: every class's entries put in front of the array.
DefinitionsReversed(keys) ==
    IF keys = << >> THEN << >>
    ELSE DefinitionsReversed(Tail(keys)) \o ClassDefinitions(Head(keys))

RECURSIVE Definitions(_)
\* The outer forEach over the Map, in insertion order, pushing onto the array.
Definitions(keys) ==
    IF keys = << >> THEN << >>
    ELSE ClassDefinitions(Head(keys)) \o Definitions(Tail(keys))

\* getConfigValueOptionsMap throws inside the loop for a class without fields.
DefinitionsError(keys) ==
    IF \E i \in DOMAIN keys : OptionsMapError(keys[i]) # "none" THEN "NoFieldsError" ELSE "none"

\* One timer callback: the resolve of a suspended getConfigsDefintions, or a
\* registration a caller put off with setTimeout.
ResumeTask(cfgs) == [kind |-> "resume", clazz |-> "", atCall |-> MapKeys(cfgs)]
AddTask(clazz) == [kind |-> "add", clazz |-> clazz, atCall |-> << >>]

\* Mutant of RegistryRead: the registry read before the tick is awaited.
RegistryReadEarly(atCall, atResume) == atCall

\* The registry the loop of lines 68-73 iterates: the one found after the await.
RegistryRead(atCall, atResume) == atResume

\* The synchronous part of the call: up to the await, the timer is set and the
\* promise handed back.
GetConfigsDefintions ==
    /\ Len(timers) < MaxTimers
    /\ timers' = Append(timers, ResumeTask(configs))
    /\ ret' = Returns("getConfigsDefintions", "", 0, EmptySnapshot)
    /\ UNCHANGED <<configs, heap, env, held, created, returned, definitions>>

\* The timer fires and the call runs on from the await to its return.
ResumeGetConfigsDefintions ==
    /\ timers # << >>
    /\ Head(timers).kind = "resume"
    /\ timers' = Tail(timers)
    /\ LET read == RegistryRead(Head(timers).atCall, MapKeys(configs))
       IN definitions' = [settled |-> TRUE, err |-> DefinitionsError(read),
                          value |-> IF DefinitionsError(read) # "none" THEN << >>
                                    ELSE Definitions(read),
                          atCall |-> Head(timers).atCall]
    /\ UNCHANGED <<configs, heap, env, ret, held, created, returned>>

\* The classes whose registration some module puts off.
ScheduledClasses == {"ExampleClass", "Communicator"}

\* A caller puts a registration off to a later tick: setTimeout(() => Configs.add(clazz, {})).
ScheduleAdd(clazz) ==
    /\ Len(timers) < MaxTimers
    /\ timers' = Append(timers, AddTask(clazz))
    /\ UNCHANGED <<configs, heap, env, ret, held, created, returned, definitions>>

\* The timer of a put-off registration fires.
RunScheduledAdd ==
    /\ timers # << >>
    /\ Head(timers).kind = "add"
    /\ timers' = Tail(timers)
    /\ Add(Head(timers).clazz, NoOptions)
    /\ UNCHANGED definitions

\* ------------------------------------------------------------ specification
\* Registration from every source, lookups, caller writes and snapshot calls
\* whose result the caller does not retain.
Next ==
    \/ \E clazz \in Classes, options \in Options :
          Add(clazz, options) /\ UNCHANGED <<timers, definitions>>
    \/ \E clazz \in Classes : Get(clazz)
    \/ \E clazz \in Classes, value \in CallerValues :
          \E property \in FieldProperties(clazz) : SetField(clazz, property, value)
    \/ \E clazz \in Classes : TakeSnapshot(clazz, FALSE)
    \/ \E clazz \in Classes, snapshot \in SnapshotLiterals : RestoreSnapshot(clazz, snapshot)
    \/ RemoveAllConfigs
    \/ \E key \in EnvNames : SetEnv(key)
    \/ \E key \in EnvNames : RemoveEnv(key)

Spec == Init /\ [][Next]_vars

\* Snapshot round trips: the caller retains the snapshot it takes and restores
\* it later; the environment stays as it is at start.
SnapshotOptions == {NoOptions, [given |-> TRUE, configYmlPath |-> "local.yml"]}

SnapshotNext ==
    \/ \E clazz \in Classes, options \in SnapshotOptions :
          Add(clazz, options) /\ UNCHANGED <<timers, definitions>>
    \/ \E clazz \in Classes, value \in CallerValues :
          \E property \in FieldProperties(clazz) : SetField(clazz, property, value)
    \/ \E clazz \in Classes : TakeSnapshot(clazz, TRUE)
    \/ RestoreHeld
    \/ RemoveAllConfigs

SnapshotSpec == Init /\ [][SnapshotNext]_vars

\* The definitions export and the event loop: calls made in the running task,
\* registrations put off to a timer, and the timers firing in order.
DefinitionsNext ==
    \/ \E clazz \in Classes : Add(clazz, NoOptions) /\ UNCHANGED <<timers, definitions>>
    \/ GetConfigsDefintions
    \/ ResumeGetConfigsDefintions
    \/ \E clazz \in ScheduledClasses : ScheduleAdd(clazz)
    \/ RunScheduledAdd
    \/ RemoveAllConfigs

DefinitionsSpec == Init /\ [][DefinitionsNext]_vars

\* The two snapshot literals of the tests: the empty one and the unknown key.
RegistryLiterals == {<< >>, <<[key |-> "unknownProperty", value |-> Str("value")]>>}

\* Every operation of the registry, called from the running task, which has
\* one definitions export under way at a time.
RegistryNext ==
    \/ \E clazz \in Classes : Add(clazz, NoOptions) /\ UNCHANGED <<timers, definitions>>
    \/ \E clazz \in Classes : Get(clazz)
    \/ \E clazz \in Classes : TakeSnapshot(clazz, FALSE)
    \/ \E clazz \in Classes, snapshot \in RegistryLiterals : RestoreSnapshot(clazz, snapshot)
    \/ timers = << >> /\ GetConfigsDefintions
    \/ ResumeGetConfigsDefintions
    \/ RemoveAllConfigs

RegistrySpec == Init /\ [][RegistryNext]_vars

\* Two classes with the same field names side by side: registration from the
\* yaml file and the environment, caller writes, snapshots kept and restored.
IsolationNext ==
    \/ \E clazz \in IsolationClasses, options \in SnapshotOptions :
          Add(clazz, options) /\ UNCHANGED <<timers, definitions>>
    \/ \E clazz \in IsolationClasses, value \in CallerValues :
          \E property \in FieldProperties(clazz) : SetField(clazz, property, value)
    \/ \E clazz \in IsolationClasses : TakeSnapshot(clazz, TRUE)
    \/ RestoreHeld
    \/ SetEnv("HELLO_WORLD")
    \/ RemoveEnv("HELLO_WORLD")
    \/ RemoveAllConfigs

IsolationSpec == Init /\ [][IsolationNext]_vars

\* ------------------------------------------------------------------ claims
\* The value the three layers give field i of a class: the environment value
\* when the variable is set, else the yaml value when a file was asked for and
\* has the key, else the in-class default.
LayeredValue(clazz, i, options, e) ==
    LET f == Fields(clazz)[i]
    IN IF f.name \in DOMAIN e
       THEN LoadEnvironmentVariable(e, f.name, f.type)
       ELSE IF options.given /\ options.configYmlPath # ""
                 /\ f.name \in DOMAIN YamlFile(options.configYmlPath)
            THEN YamlFile(options.configYmlPath)[f.name]
            ELSE ReadMember(NewInstance(clazz), f.property)

\* What get(clazz).property reads in the state a step leads to.
FieldRead(cfgs, h, clazz, property) == ReadMember(LiveInstance(cfgs, h, clazz), property)

EntriesOf(cfgs, clazz) == {i \in DOMAIN cfgs : cfgs[i].clazz = clazz}

\* C1: after a successful add(clazz, options) every declared field of the
\* registered instance reads the environment value if set, else the yaml value
\* if present, else the in-class default.
C1_EnvOverYamlOverDefault ==
    [][(ret'.op = "add" /\ ret'.err = "none") =>
          \A options \in Options :
              Add(ret'.clazz, options) =>
                  \A i \in DOMAIN Fields(ret'.clazz) :
                      FieldRead(configs', heap', ret'.clazz, Fields(ret'.clazz)[i].property)
                          = LayeredValue(ret'.clazz, i, options, env)]_vars

\* C2: add on a class that is registered throws the already-added error naming
\* the class and leaves the registry as it was: the same single entry, the same
\* object, the same field values.
C2_ReAddRejected ==
    [][(ret'.op = "add" /\ ret'.clazz \in RegisteredClasses(configs)) =>
          \A options \in Options :
              Add(ret'.clazz, options) =>
                  /\ ret'.err = "AlreadyRegisteredError"
                  /\ ret'.detail = ret'.clazz
                  /\ configs' = configs
                  /\ heap' = heap
                  /\ Cardinality(EntriesOf(configs', ret'.clazz)) = 1]_vars

C2_Witness ==
    /\ ret.op = "add"
    /\ ret.err = "AlreadyRegisteredError"
    /\ ret.clazz \in RegisteredClasses(configs)
    /\ FieldRead(configs, heap, ret.clazz, "propertyDefaultHelloWorld") = Str("value")

Malformed(clazz) == \E i \in DOMAIN Fields(clazz) : Fields(clazz)[i].type \notin SupportedTypes

\* C3: add on a class without fields throws NoFieldsError, add on a class with
\* malformed field options throws ValidationError; either way no instance has
\* been created, the registry is unchanged and the class is not registered.
C3_InvalidClassRejected ==
    [][(ret'.op = "add" /\ (Fields(ret'.clazz) = << >> \/ Malformed(ret'.clazz))) =>
          \A options \in Options :
              Add(ret'.clazz, options) =>
                  /\ Fields(ret'.clazz) = << >> => ret'.err = "NoFieldsError"
                  /\ Fields(ret'.clazz) # << >> => ret'.err = "ValidationError"
                  /\ created' = created
                  /\ configs' = configs
                  /\ heap' = heap
                  /\ ret'.clazz \notin RegisteredClasses(configs')]_vars

C3_Witness ==
    /\ ret.op = "add"
    /\ ret.err \in {"NoFieldsError", "ValidationError"}
    /\ ret.clazz \notin RegisteredClasses(configs)
    /\ configs # << >>

\* C4 as stated: get(clazz) throws the not-registered error whenever no
\* add(clazz) has completed successfully since the start or the last
\* removeAllConfigs, in particular after an add(clazz) that threw.
C4_LookupFailsUnlessAddSucceeded ==
    (ret.op = "get" /\ returned[ret.clazz] = 0) => ret.err = "NotRegisteredError"

\* C4 as amended: get(clazz) throws the not-registered error exactly when no
\* add(clazz) since the start or the last removeAllConfigs got as far as
\* instantiating the class: it throws after an add that failed with
\* NoFieldsError or ValidationError, and returns the partially initialised
\* instance after an add that failed on the yaml file or on a required field.
C4_LookupFailsIffNeverInstantiated ==
    /\ ret.op = "get" => (ret.err = "NotRegisteredError" <=> created[ret.clazz] = 0)
    /\ ret.op = "get" /\ ret.err = "none" => ret.obj = MapGet(configs, ret.clazz) /\ ret.obj # 0
    /\ \A clazz \in Classes : clazz \in RegisteredClasses(configs) <=> created[clazz] # 0
    /\ (ret.op = "add" /\ ret.err \in {"NoFieldsError", "ValidationError"})
          => ret.clazz \notin RegisteredClasses(configs)
    /\ (ret.op = "add" /\ ret.err \in {"MissingYamlFile", "MissingRequiredFieldError"})
          => ret.clazz \in RegisteredClasses(configs)

C4_Witness ==
    /\ ret.op = "get"
    /\ ret.err = "none"
    /\ returned[ret.clazz] = 0
    /\ created[ret.clazz] # 0

\* C5: every get(clazz) after a successful add(clazz) returns the object that
\* add returned, which is the object the yaml/env steps were applied to.
C5_LookupReturnsOverlaidObject ==
    (ret.op = "get" /\ ret.err = "none" /\ returned[ret.clazz] # 0) =>
        /\ ret.obj = returned[ret.clazz]
        /\ ret.obj = created[ret.clazz]

\* Some required field of the class has no value once the layers are applied.
RequiredMissing(clazz, options, e) ==
    {i \in DOMAIN Fields(clazz) :
        Fields(clazz)[i].required /\ IsEmptyValue(LayeredValue(clazz, i, options, e))}

\* C6: an add that gets as far as the required-field check throws
\* MissingRequiredFieldError exactly when some required field has no value
\* after the default, yaml and environment layers, and names such a field.
C6_MissingRequiredExactly ==
    [][ret'.op = "add" =>
          \A options \in Options :
              Add(ret'.clazz, options) =>
                  /\ ret'.err = "MissingRequiredFieldError"
                        => /\ RequiredMissing(ret'.clazz, options, env) # {}
                           /\ \E i \in RequiredMissing(ret'.clazz, options, env) :
                                 ret'.detail = Fields(ret'.clazz)[i].name
                  /\ RequiredMissing(ret'.clazz, options, env) = {}
                        => ret'.err # "MissingRequiredFieldError"
                  /\ ret'.err \notin {"AlreadyRegisteredError", "NoFieldsError",
                                      "ValidationError", "MissingYamlFile"}
                        => (ret'.err = "MissingRequiredFieldError"
                                <=> RequiredMissing(ret'.clazz, options, env) # {})]_vars

C6_Witness ==
    /\ ret.op = "add"
    /\ ret.err = "MissingRequiredFieldError"
    /\ ret.detail = "GREETING"
    /\ "GREETING" \in DOMAIN env

SnapshotKeysOf(snapshot) == {snapshot[i].key : i \in DOMAIN snapshot}

\* C7: takeSnapshot on a registered class returns exactly the declared field
\* properties, each with the value the live instance holds at that moment.
C7_SnapshotHoldsCurrentValues ==
    (ret.op = "takeSnapshot" /\ ret.err = "none" /\ ret.clazz \in RegisteredClasses(configs)) =>
        /\ SnapshotKeysOf(ret.snap) = FieldProperties(ret.clazz)
        /\ Len(ret.snap) = Cardinality(FieldProperties(ret.clazz))
        /\ \A i \in DOMAIN ret.snap :
              ret.snap[i].value = FieldRead(configs, heap, ret.clazz, ret.snap[i].key)

\* C8: restoring the snapshot the caller took of a registered class makes every
\* declared field read the value it had when the snapshot was taken.
C8_RestoreGivesBackSnapshotValues ==
    [][(ret'.op = "restoreSnapshot" /\ held.live /\ held.clazz \in RegisteredClasses(configs)
          /\ RestoreHeld) =>
          /\ ret'.err = "none"
          /\ \A p \in FieldProperties(held.clazz) :
                FieldRead(configs', heap', held.clazz, p) = held.taken[p]]_vars

\* The first position of a snapshot whose key is no declared field, 0 if none.
FirstUnknown(clazz, snapshot) ==
    LET unknown == {i \in DOMAIN snapshot : snapshot[i].key \notin FieldProperties(clazz)}
    IN IF unknown = {} THEN 0 ELSE CHOOSE i \in unknown : \A j \in unknown : i <= j

\* C9: restoreSnapshot on a registered class with a key that is no declared
\* field throws UnknownPropertyError naming the property and the class, assigns
\* no key at or after the first unknown one, and creates no property.
C9_UnknownKeyRejected ==
    [][(ret'.op = "restoreSnapshot" /\ ret'.clazz \in RegisteredClasses(configs)) =>
          \A snapshot \in SnapshotLiterals :
              (FirstUnknown(ret'.clazz, snapshot) # 0 /\ RestoreSnapshot(ret'.clazz, snapshot)) =>
                  /\ ret'.err = "UnknownPropertyError"
                  /\ ret'.detail = snapshot[FirstUnknown(ret'.clazz, snapshot)].key
                  /\ \A i \in DOMAIN snapshot :
                        i >= FirstUnknown(ret'.clazz, snapshot) =>
                            FieldRead(configs', heap', ret'.clazz, snapshot[i].key)
                                = FieldRead(configs, heap, ret'.clazz, snapshot[i].key)
                  /\ DOMAIN LiveInstance(configs', heap', ret'.clazz)
                        = DOMAIN LiveInstance(configs, heap, ret'.clazz)]_vars

\* C10: restoreSnapshot on a class that is not registered throws the
\* not-registered error for every snapshot, the empty one included, and adds
\* nothing to the registry.
C10_RestoreUnregisteredRejected ==
    [][(ret'.op = "restoreSnapshot" /\ ret'.clazz \notin RegisteredClasses(configs)) =>
          \A snapshot \in SnapshotLiterals :
              RestoreSnapshot(ret'.clazz, snapshot) =>
                  /\ ret'.err = "NotRegisteredError"
                  /\ configs' = configs]_vars

\* C11: takeSnapshot on a class without field definitions throws NoFieldsError
\* naming the class, never the not-registered error, and hands back no
\* snapshot, whatever the registry holds.
C11_SnapshotWithoutFieldsRejected ==
    (ret.op = "takeSnapshot" /\ Fields(ret.clazz) = << >>) =>
        /\ ret.err = "NoFieldsError"
        /\ ret.detail = ret.clazz
        /\ ret.snap = EmptySnapshot

C11_Witness ==
    /\ ret.op = "takeSnapshot"
    /\ ret.err = "NoFieldsError"
    /\ Fields(ret.clazz) = << >>
    /\ ~Has(configs, ret.clazz)
    /\ configs # << >>

\* The declared fields of the registered classes: <<k, i>> is field i of the
\* k-th registered class.
DeclaredFields(cfgs) ==
    UNION {{<<k, i>> : i \in DOMAIN Fields(cfgs[k].clazz)} : k \in DOMAIN cfgs}

\* The place of field <<k, i>> when the fields are put in class registration
\* order and then declaration order.
PlaceOf(cfgs, k, i) ==
    Cardinality({p \in DeclaredFields(cfgs) : p[1] < k \/ (p[1] = k /\ p[2] <= i)})

\* C12: the array getConfigsDefintions resolves to holds, for the registry as
\* it is when read, exactly one entry per declared field of every registered
\* class and nothing else, in class registration order and then field
\* declaration order; it is empty for an empty registry.
C12_DefinitionsOfRegisteredClassesInOrder ==
    [][ResumeGetConfigsDefintions =>
          /\ definitions'.settled
          /\ definitions'.err = "none"
          /\ Len(definitions'.value) = Cardinality(DeclaredFields(configs))
          /\ \A p \in DeclaredFields(configs) :
                definitions'.value[PlaceOf(configs, p[1], p[2])]
                    = DefinitionOf(Fields(configs[p[1]].clazz)[p[2]])
          /\ configs = << >> => definitions'.value = << >>]_vars

C12_Witness ==
    /\ definitions.settled
    /\ MapKeys(configs) = <<"Communicator", "ExampleClass">>
    /\ Len(definitions.value) = 4
    /\ definitions.value[3].name = "IDLE_SOUND"
    /\ definitions.value[4].name = "HELLO_WORLD"

\* C13: right after removeAllConfigs the registry is empty: the next get or
\* restoreSnapshot throws the not-registered error whatever the class, the
\* next add does not throw the already-added error, and the definitions of
\* the registry are the empty array.
C13_RemoveAllClearsRegistry ==
    [][ret.op = "removeAllConfigs" =>
          /\ configs = << >>
          /\ Definitions(MapKeys(configs)) = << >>
          /\ ret'.op \in {"get", "restoreSnapshot"} => ret'.err = "NotRegisteredError"
          /\ ret'.op = "add" => ret'.err # "AlreadyRegisteredError"]_vars

SeqRange(q) == {q[i] : i \in DOMAIN q}

\* The config names of the fields an exported array has an entry for.
NamesIn(value) == {value[n].name : n \in DOMAIN value}

\* C14: getConfigsDefintions reads the registry after the tick it awaits: a
\* class registered after the call was made and still registered when the
\* timer fires has all its fields in the array the call resolves to.  (A
\* registration put off to a timer set after the call runs once the call has
\* resolved; C14_Witness has such a class registered and not in the array.)
C14_RegistryReadAfterTheTick ==
    [][ResumeGetConfigsDefintions =>
          \A clazz \in RegisteredClasses(configs) \ SeqRange(Head(timers).atCall) :
              /\ FieldNames(clazz) \subseteq NamesIn(definitions'.value)
              /\ \A i \in DOMAIN Fields(clazz) :
                    DefinitionOf(Fields(clazz)[i]) \in SeqRange(definitions'.value)]_vars

C14_Witness ==
    /\ definitions.settled
    /\ "ExampleClass" \notin SeqRange(definitions.atCall)
    /\ "HELLO_WORLD" \in NamesIn(definitions.value)
    /\ "Communicator" \in RegisteredClasses(configs)
    /\ "GREETING" \notin NamesIn(definitions.value)
    /\ timers = << >>

\* The properties of a class's fields whose config name is among the keys.
KeyedProperties(clazz, keys) ==
    {Fields(clazz)[i].property : i \in {j \in DOMAIN Fields(clazz) : Fields(clazz)[j].name \in keys}}

\* The yaml values an add with these options reads: none without a file.
YamlValuesFor(options) ==
    IF YamlRequested(options) THEN YamlFile(options.configYmlPath) ELSE [k \in {} |-> Undefined]

\* C15: in an add that gets to the yaml and environment steps, each step
\* writes only the properties of the fields whose config name is a key of its
\* source: every other property of the instance, a non-config property
\* included, keeps the value the layer before gave it, a source key that is
\* no config name of the class creates no property, and the instance a
\* failed required-field check leaves registered is the one so written.
C15_OverlayWritesMatchingFieldsOnly ==
    [][(ret'.op = "add" /\ ret'.err \in {"none", "MissingRequiredFieldError"}) =>
          \A options \in Options :
              Add(ret'.clazz, options) =>
                  LET default == NewInstance(ret'.clazz)
                      yamlValues == YamlValuesFor(options)
                      afterYaml == ApplyYaml(default, ret'.clazz, yamlValues)
                      afterEnv == ApplyEnv(afterYaml, ret'.clazz, env)
                  IN /\ DOMAIN afterYaml = DOMAIN default
                     /\ DOMAIN afterEnv = DOMAIN default
                     /\ \A p \in (DOMAIN default) \ KeyedProperties(ret'.clazz, DOMAIN yamlValues) :
                           afterYaml[p] = default[p]
                     /\ \A p \in (DOMAIN default) \ KeyedProperties(ret'.clazz, DOMAIN env) :
                           afterEnv[p] = afterYaml[p]
                     /\ ret'.err = "MissingRequiredFieldError"
                           => LiveInstance(configs', heap', ret'.clazz) = afterEnv]_vars

C15_Witness ==
    /\ ret.op = "add"
    /\ ret.clazz = "Communicator"
    /\ ret.err = "MissingRequiredFieldError"
    /\ DOMAIN env = {"HELLO_WORLD", "GREETING"}
    /\ FieldRead(configs, heap, "Communicator", "greeting") = Str("")
    /\ FieldRead(configs, heap, "Communicator", "goodbye") = Str("/me left the chat")
    /\ DOMAIN LiveInstance(configs, heap, "Communicator") = DOMAIN NewInstance("Communicator")

\* C16: once an add(clazz) has failed on the yaml file or on a required field,
\* and until removeAllConfigs, the class is registered with the instance that
\* add created and left partially initialised, and every further add(clazz)
\* throws the already-added error.
C16_FailedAddStaysRegistered ==
    [][\A clazz \in Classes :
          (created[clazz] # 0 /\ returned[clazz] = 0) =>
              /\ Has(configs, clazz)
              /\ MapGet(configs, clazz) = created[clazz]
              /\ (ret'.op = "add" /\ ret'.clazz = clazz) => ret'.err = "AlreadyRegisteredError"]_vars

C16_Witness ==
    /\ ret.op = "add"
    /\ ret.err = "AlreadyRegisteredError"
    /\ created[ret.clazz] # 0
    /\ returned[ret.clazz] = 0
    /\ MapGet(configs, ret.clazz) = created[ret.clazz]

\* C17: takeSnapshot on a class that has field definitions and is not
\* registered throws the not-registered error and hands back no snapshot.
C17_SnapshotOfUnregisteredRejected ==
    (ret.op = "takeSnapshot" /\ Fields(ret.clazz) # << >> /\ ~Has(configs, ret.clazz)) =>
        /\ ret.err = "NotRegisteredError"
        /\ ret.snap = EmptySnapshot

\* C18: get, takeSnapshot, restoreSnapshot and getConfigsDefintions (the call
\* and its resumption), whether they return or throw, leave the Map as it is:
\* the same classes in the same order, each with the same instance object.
\* The set of registered classes changes in add and removeAllConfigs steps only.
C18_OnlyAddAndRemoveAllChangeRegistry ==
    [][/\ (\/ ret'.op \in {"get", "takeSnapshot", "restoreSnapshot", "getConfigsDefintions"}
           \/ ResumeGetConfigsDefintions)
          => /\ configs' = configs
             /\ RegisteredClasses(configs') = RegisteredClasses(configs)
             /\ \A clazz \in RegisteredClasses(configs) :
                   MapGet(configs', clazz) = MapGet(configs, clazz)
       /\ RegisteredClasses(configs') # RegisteredClasses(configs)
          => ret'.op \in {"add", "removeAllConfigs"}]_vars

C18_Witness ==
    /\ ret.op = "restoreSnapshot"
    /\ ret.err = "none"
    /\ Len(configs) = 2
    /\ FieldRead(configs, heap, ret.clazz, "unknownProperty") = Str("value")
    /\ definitions.settled
    /\ definitions.value # << >>

\* C19: an add(A), a restoreSnapshot(A, s) or a caller's write to A's instance
\* leaves every other registered class B with the same instance object and the
\* same value of every property of it, also when A and B declare a field of
\* the same property name and config name.  (takeSnapshot(B) reads B's field
\* options only, which no operation writes.)
C19_OtherClassesUntouched ==
    [][ret'.op \in {"add", "restoreSnapshot", "write"} =>
          \A B \in RegisteredClasses(configs) \ {ret'.clazz} :
              /\ Has(configs', B)
              /\ MapGet(configs', B) = MapGet(configs, B)
              /\ LiveInstance(configs', heap', B) = LiveInstance(configs, heap, B)
              /\ \A p \in FieldProperties(B) :
                    FieldRead(configs', heap', B, p) = FieldRead(configs, heap, B, p)]_vars

C19_Witness ==
    /\ ret.op = "restoreSnapshot"
    /\ ret.err = "none"
    /\ ret.clazz = "ExampleClass"
    /\ RegisteredClasses(configs) = IsolationClasses
    /\ FieldRead(configs, heap, "ExampleClass", "propertyDefaultHelloWorld") = Undefined
    /\ FieldRead(configs, heap, "EchoClass", "propertyDefaultHelloWorld") = Str("value")
    /\ "HELLO_WORLD" \in DOMAIN env

====
